---- MODULE Spec2Model ----
(***************************************************************************)
(* Shop-Manager (src/main.py): the sale, multi-sale, undo, bottle-return  *)
(* and product-update handlers of the FastAPI service over its MongoDB     *)
(* collections, and the reports computed from them.                        *)
(*                                                                         *)
(* Each handler is an `async def`; every `await` on a collection is one    *)
(* store operation, and the event loop may run another request between     *)
(* two of them.  An action below is one store operation of one request     *)
(* together with the local code that runs before the next await.           *)
(*                                                                         *)
(* Spec        any interleaving of the requests of the operator sessions   *)
(* SpecSeq     one request at a time, each run to completion               *)
(* SpecCredit  sales with a payment method and a customer, one at a time   *)
(* SpecShop    sales, undo, bottle returns and catalog updates, one at a   *)
(*             time                                                        *)
(* SpecSummary the sales of two sellers over several days, one at a time   *)
(* SpecLive    sales and undos of one session, every request run to its    *)
(*             end, while time goes by                                     *)
(* SpecAny     sales carrying any integer quantity, one at a time          *)
(*                                                                         *)
(* The clock counts instants, Resolution of them in a minute.  Every       *)
(* datetime.now() returns an instant later than the one before it, so no   *)
(* two timestamps are equal; minutes pass (Tick) only between requests, a  *)
(* request's own store operations being short.  unit_price is a float in   *)
(* the source and an integer here.  Authentication (verify_pin) and the    *)
(* ObjectId parse errors are left out: every id below is well formed.      *)
(***************************************************************************)
EXTENDS Integers, Sequences, FiniteSets, TLC

\* ------------------------------------------------------------ bounds
MaxQty == 2        \* quantity on hand of each product at start
MaxCalls == 3      \* requests issued in one behaviour of Spec
MaxSeqCalls == 4   \* requests issued in one behaviour of SpecSeq
MaxLines == 2      \* line items of one multi-sale request
MaxClock == 11     \* the environment stops advancing the clock here
Resolution == 2    \* instants of the clock in one minute
MaxDay == 1        \* the last day the clock reaches (the first one is day 0)
MaxNeg == 1        \* the most negative quantity a request carries is -MaxNeg

\* timedelta(minutes=5): the undo window, in minutes and in instants
UndoWindow == 5
Window == UndoWindow * Resolution

\* line 578: settings.get("low_stock_threshold", 5); every settings document the
\* handlers write (lines 159, 179, 664-668) carries 5 and none changes it
LowStockThreshold == 5

\* ------------------------------------------------------------ inputs
Procs == {"A", "B"}                 \* operator sessions; sold_by is the session's name
ProductIds == {"p1", "p2"}          \* products of the catalog
MissingId == "p0"                   \* a well-formed id that no product has
NoCustomer == "none"                \* customer_id: Optional[str] = None
PosQuantities == 1..MaxQty          \* quantity (>0)
TickSteps == {Window - Resolution}    \* four minutes pass between two requests

VARIABLES
    products,     \* db.products   : product id -> document
    bottles,      \* db.bottles    : product id -> bottle account (absent: no document)
    sales,        \* db.sales      : set of sale documents
    undo_log,     \* db.undo_log   : set of {sale_id, timestamp}
    bottle_returns, \* db.bottle_returns : the return records, in insertion order
    next_id,      \* the next ObjectId the store hands out to an inserted sale
    now,          \* the instant datetime.now() returns
    pc,           \* per session: the store operation its request is about to do
    req,          \* per session: the request body
    local,        \* per session: the handler's local variables
    result,       \* per session: the outcome of its request
    started,      \* number of requests issued so far
    customer_of,  \* history: sale id -> the customer_id its request carried
    pre,          \* history: the latest request and the collections as it found them
    prev          \* history: the request before it, its outcome and what it found

vars == <<products, bottles, sales, undo_log, bottle_returns, next_id, now, pc, req, local,
          result, started, customer_of, pre, prev>>
store == <<products, bottles, sales, undo_log, bottle_returns, next_id, customer_of>>

\* ------------------------------------------------------------ store helpers
\* document field with a default, as `doc.get(f, 0)` / a field $inc creates
FieldOf(doc, f) == IF f \in DOMAIN doc THEN doc[f] ELSE 0

\* {"$inc": {f: n}} applied to one document
IncField(doc, f, n) ==
    [g \in DOMAIN doc \cup {f} |-> IF g = f THEN FieldOf(doc, f) + n ELSE doc[g]]

\* collection.update_one({key}, {"$inc": {f: n}}, upsert=...)
UpdateOneInc(coll, key, f, n, upsert) ==
    IF key \in DOMAIN coll
    THEN [coll EXCEPT ![key] = IncField(@, f, n)]
    ELSE IF upsert
         THEN [k \in DOMAIN coll \cup {key} |-> IF k = key THEN [g \in {f} |-> n] ELSE coll[k]]
         ELSE coll

\* sales_collection.find_one({"_id": id})
FindSale(id) == {s \in sales : s.id = id}

EmptyLocal == [product |-> "none", product_id |-> "none", sale_id |-> 0, i |-> 0, sale_items |-> <<>>,
               total_amount |-> 0, recent_undo |-> "none", sale |-> "none"]

Idle(p) == pc[p] \in {"idle", "done"}

\* what a request found when it arrived: its body and the collections
Snapshot(p, r) == [call_no |-> started + 1, proc |-> p, req |-> r, products |-> products,
                   bottles |-> bottles, sales |-> sales, undo_log |-> undo_log,
                   bottle_returns |-> bottle_returns, now |-> now]

\* a request arrives at session p, one of at most `limit`; `track` keeps the
\* history the sequential properties are stated over
Call(p, r, first, track, limit) ==
    /\ Idle(p)
    /\ started < limit
    /\ started' = started + 1
    /\ prev' = IF track /\ pre.call_no > 0
               THEN [call_no |-> pre.call_no, result |-> result[pre.proc],
                     sale_id |-> local[pre.proc].sale_id, pre |-> pre]
               ELSE prev
    /\ pre' = IF track THEN Snapshot(p, r) ELSE pre
    /\ req' = [req EXCEPT ![p] = r]
    /\ local' = [local EXCEPT ![p] = EmptyLocal]
    /\ result' = [result EXCEPT ![p] = "pending"]
    /\ pc' = [pc EXCEPT ![p] = first]
    /\ UNCHANGED <<store, now>>

\* the request ends, with an HTTPException or with its response; its locals die
Finish(p, outcome) ==
    /\ result' = [result EXCEPT ![p] = outcome]
    /\ pc' = [pc EXCEPT ![p] = "done"]
    /\ req' = [req EXCEPT ![p] = [op |-> req[p].op]]
    /\ local' = [local EXCEPT ![p] = [EmptyLocal EXCEPT !.sale_id = local[p].sale_id]]
    /\ UNCHANGED <<pre, prev, started>>

\* the request goes on to its next store operation with locals `loc`
Goto(p, label, loc) ==
    /\ pc' = [pc EXCEPT ![p] = label]
    /\ local' = [local EXCEPT ![p] = loc]
    /\ UNCHANGED <<result, req, pre, prev, started>>

\* ------------------------------------------------------------ record_sale
SaleRequests(Ids, Q, Flags, Pay, Cust) ==
    [op : {"sale"}, product_id : Ids, quantity : Q, bottle_taken : Flags,
     payment_method : Pay, customer_id : Cust]

RecordSaleCall(p, R, track, limit) == \E r \in R : Call(p, r, "rs_find", track, limit)

\* the stock check refusing a sale of everything that is left
InsufficientOffByOne(product, n) == product.quantity <= n

\* line 296: the stock check
Insufficient(product, n) == product.quantity < n

\* the handler taking the stock before it checks it
RsCheckAfterDecrement(p) ==
    /\ pc[p] = "rs_find"
    /\ IF req[p].product_id \notin DOMAIN products
       THEN Finish(p, "NotFound") /\ UNCHANGED products
       ELSE /\ products' = UpdateOneInc(products, req[p].product_id, "quantity",
                                        0 - req[p].quantity, FALSE)
            /\ IF Insufficient(products[req[p].product_id], req[p].quantity)
               THEN Finish(p, "InsufficientStock")
               ELSE Goto(p, "rs_insert",
                         [local[p] EXCEPT !.product = products[req[p].product_id]])
    /\ UNCHANGED <<bottles, sales, undo_log, bottle_returns, next_id, customer_of, now>>

\* lines 290-297: find the product, check the stock
RsFindProduct(p) ==
    /\ pc[p] = "rs_find"
    /\ IF req[p].product_id \notin DOMAIN products
       THEN Finish(p, "NotFound")
       ELSE IF Insufficient(products[req[p].product_id], req[p].quantity)
            THEN Finish(p, "InsufficientStock")
            ELSE Goto(p, "rs_insert", [local[p] EXCEPT !.product = products[req[p].product_id]])
    /\ UNCHANGED <<store, now>>

\* lines 299-313: the sale document (no customer_id is copied into it)
SaleRecord(id, r, product, seller, ts) ==
    [id |-> id,
     product_id |-> r.product_id,
     product_name |-> product.name,
     quantity |-> r.quantity,
     unit_price |-> product.unit_price,
     total_amount |-> product.unit_price * r.quantity,
     bottle_taken |-> IF product.is_bottled THEN r.bottle_taken ELSE FALSE,
     sold_by |-> seller,
     payment_method |-> r.payment_method,
     timestamp |-> ts]

\* lines 299-316: build the sale document and insert it
RsInsertSale(p) ==
    /\ pc[p] = "rs_insert"
    /\ sales' = sales \cup {SaleRecord(next_id, req[p], local[p].product, p, now)}
    /\ next_id' = next_id + 1
    /\ now' = now + 1
    /\ Goto(p, "rs_dec", [local[p] EXCEPT !.sale_id = next_id])
    /\ customer_of' = [id \in DOMAIN customer_of \cup {next_id} |->
                          IF id = next_id THEN req[p].customer_id ELSE customer_of[id]]
    /\ UNCHANGED <<products, bottles, undo_log, bottle_returns>>

\* lines 318-322 and 369-373: {"$inc": {"quantity": -quantity}}
SaleDecrement(coll, pid, n) == UpdateOneInc(coll, pid, "quantity", 0 - n, FALSE)

\* the test looking at the request's flag only
TakesBottlesFlagOnly(product, bottle_taken) == bottle_taken

\* lines 325 and 375: does the line take bottles?
TakesBottles(product, bottle_taken) == product.is_bottled /\ bottle_taken

RsDecQuantity(p) ==
    /\ pc[p] = "rs_dec"
    /\ products' = SaleDecrement(products, req[p].product_id, req[p].quantity)
    /\ Goto(p, IF TakesBottles(local[p].product, req[p].bottle_taken)
               THEN "rs_bottle" ELSE "rs_undo", local[p])
    /\ UNCHANGED <<bottles, sales, undo_log, bottle_returns, next_id, customer_of, now>>

\* lines 326-330 and 376-380: {"$inc": {"bottles_taken": quantity}}, upsert=True
BottlesTaken(coll, pid, n) == UpdateOneInc(coll, pid, "bottles_taken", n, TRUE)

\* lines 324-330
RsBottle(p) ==
    /\ pc[p] = "rs_bottle"
    /\ bottles' = BottlesTaken(bottles, req[p].product_id, req[p].quantity)
    /\ Goto(p, "rs_undo", local[p])
    /\ UNCHANGED <<products, sales, undo_log, bottle_returns, next_id, customer_of, now>>

\* lines 332-336: the undo entry of the sale
RsUndoLog(p) ==
    /\ pc[p] = "rs_undo"
    /\ undo_log' = undo_log \cup {[sale_id |-> local[p].sale_id, timestamp |-> now]}
    /\ now' = now + 1
    /\ Goto(p, "rs_sweep", local[p])
    /\ UNCHANGED <<products, bottles, sales, bottle_returns, next_id, customer_of>>

\* the sweep with its comparison turned round ("$gt")
SweepYounger(log, t) == {e \in log : ~(e.timestamp > t - Window)}

\* lines 339-340: delete_many({"timestamp": {"$lt": five_minutes_ago}})
Sweep(log, t) == {e \in log : ~(e.timestamp < t - Window)}

\* lines 338-343
RsSweep(p) ==
    /\ pc[p] = "rs_sweep"
    /\ undo_log' = Sweep(undo_log, now)
    /\ now' = now + 1
    /\ Finish(p, "ok")
    /\ UNCHANGED <<products, bottles, sales, bottle_returns, next_id, customer_of>>

\* ------------------------------------------------------------ record_multi_sale
\* sale.items: the non-empty lists of at most MaxLines lines
ItemLists(Ids, Q, Flags) ==
    UNION {[1..n -> [product_id : Ids, quantity : Q, bottle_taken : Flags]] : n \in 1..MaxLines}

MultiSaleRequests(Lists, Pay, Cust) ==
    [op : {"multi"}, items : Lists, payment_method : Pay, customer_id : Cust]

\* lines 347-349: total_amount = 0, sale_items = [], the first item
RecordMultiSaleCall(p, R, track, limit) == \E r \in R : Call(p, r, "ms_find", track, limit)

\* lines 361-368: one line of the sale document
SaleItem(item, product) ==
    [product_id |-> item.product_id,
     product_name |-> product.name,
     quantity |-> item.quantity,
     unit_price |-> product.unit_price,
     total_amount |-> product.unit_price * item.quantity,
     bottle_taken |-> IF product.is_bottled THEN item.bottle_taken ELSE FALSE]

\* the item the loop of line 349 is at (local i counts the items already done)
CurrentItem(p) == req[p].items[local[p].i + 1]

\* lines 349-368: find the item's product, check its stock, add its line
MsFindProduct(p) ==
    /\ pc[p] = "ms_find"
    /\ LET item == CurrentItem(p) IN
       IF item.product_id \notin DOMAIN products
       THEN Finish(p, "NotFound")
       ELSE LET product == products[item.product_id] IN
            IF Insufficient(product, item.quantity)
            THEN Finish(p, "InsufficientStock")
            ELSE Goto(p, "ms_dec",
                      [local[p] EXCEPT !.product = product,
                                       !.total_amount = @ + product.unit_price * item.quantity,
                                       !.sale_items = Append(@, SaleItem(item, product))])
    /\ UNCHANGED <<store, now>>

\* where the loop goes after an item: the next item, or the insert of line 388
AfterItem(p) == IF local[p].i + 1 < Len(req[p].items) THEN "ms_find" ELSE "ms_insert"

\* lines 369-373
MsDecQuantity(p) ==
    /\ pc[p] = "ms_dec"
    /\ products' = SaleDecrement(products, CurrentItem(p).product_id, CurrentItem(p).quantity)
    /\ IF TakesBottles(local[p].product, CurrentItem(p).bottle_taken)
       THEN Goto(p, "ms_bottle", local[p])
       ELSE Goto(p, AfterItem(p), [local[p] EXCEPT !.i = @ + 1])
    /\ UNCHANGED <<bottles, sales, undo_log, bottle_returns, next_id, customer_of, now>>

\* lines 374-380
MsBottle(p) ==
    /\ pc[p] = "ms_bottle"
    /\ bottles' = BottlesTaken(bottles, CurrentItem(p).product_id, CurrentItem(p).quantity)
    /\ Goto(p, AfterItem(p), [local[p] EXCEPT !.i = @ + 1])
    /\ UNCHANGED <<products, sales, undo_log, bottle_returns, next_id, customer_of, now>>

\* lines 381-387: the multi-sale document (no customer_id is copied into it)
MultiSaleRecord(id, r, items, total, seller, ts) ==
    [id |-> id,
     items |-> items,
     sold_by |-> seller,
     payment_method |-> r.payment_method,
     total_amount |-> total,
     timestamp |-> ts]

\* what record_multi_sale writes to the undo log after its insert (lines 388-390)
MultiSaleUndoEntries(id, ts) == {}

\* lines 381-390: insert the sale document and return
MsInsertSale(p) ==
    /\ pc[p] = "ms_insert"
    /\ sales' = sales \cup {MultiSaleRecord(next_id, req[p], local[p].sale_items,
                                           local[p].total_amount, p, now)}
    /\ undo_log' = undo_log \cup MultiSaleUndoEntries(next_id, now)
    /\ customer_of' = [id \in DOMAIN customer_of \cup {next_id} |->
                          IF id = next_id THEN req[p].customer_id ELSE customer_of[id]]
    /\ next_id' = next_id + 1
    /\ now' = now + 1
    /\ local' = [local EXCEPT ![p] = [EmptyLocal EXCEPT !.sale_id = next_id]]
    /\ result' = [result EXCEPT ![p] = "ok"]
    /\ pc' = [pc EXCEPT ![p] = "done"]
    /\ req' = [req EXCEPT ![p] = [op |-> req[p].op]]
    /\ UNCHANGED <<products, bottles, bottle_returns, pre, prev, started>>

\* ------------------------------------------------------------ undo_last_sale
UndoCall(p, track, limit) == Call(p, [op |-> "undo"], "ud_find", track, limit)

\* the lookup without its time filter
EligibleNoWindow(log, t) == log

\* line 452: {"timestamp": {"$gte": five_minutes_ago}}
Eligible(log, t) == {e \in log : e.timestamp >= t - Window}

\* line 453: sort=[("timestamp", -1)]; the store may return any of the latest
MostRecent(entries) == {e \in entries : \A f \in entries : f.timestamp <= e.timestamp}

\* lines 449-457: the most recent undo entry inside the window
UdFindRecent(p) ==
    /\ pc[p] = "ud_find"
    /\ IF Eligible(undo_log, now) = {}
       THEN Finish(p, "NoEligibleUndo")
       ELSE \E e \in MostRecent(Eligible(undo_log, now)) :
                Goto(p, "ud_sale", [local[p] EXCEPT !.recent_undo = e, !.sale_id = e.sale_id])
    /\ now' = now + 1
    /\ UNCHANGED store

\* lines 459-473: the sale of the entry; a multi-sale document has no "product_id"
UdFindSale(p) ==
    /\ pc[p] = "ud_sale"
    /\ IF FindSale(local[p].sale_id) = {}
       THEN Finish(p, "SaleNotFound")
       ELSE \E s \in FindSale(local[p].sale_id) :
                IF "product_id" \in DOMAIN s
                THEN Goto(p, "ud_inc", [local[p] EXCEPT !.sale = s])
                ELSE Finish(p, "KeyError")
    /\ UNCHANGED <<store, now>>

\* lines 475-478: {"$inc": {"quantity": sale["quantity"]}}
UndoIncrement(coll, pid, n) == UpdateOneInc(coll, pid, "quantity", n, FALSE)

UdIncQuantity(p) ==
    /\ pc[p] = "ud_inc"
    /\ products' = UndoIncrement(products, local[p].sale.product_id, local[p].sale.quantity)
    /\ Goto(p, IF local[p].sale.bottle_taken THEN "ud_bottle" ELSE "ud_delsale", local[p])
    /\ UNCHANGED <<bottles, sales, undo_log, bottle_returns, next_id, customer_of, now>>

\* the undo forgetting the bottles of the sale
UndoBottlesSkipped(coll, pid, n) == coll

\* lines 482-485: {"$inc": {"bottles_taken": -sale["quantity"]}}, no upsert
UndoBottles(coll, pid, n) == UpdateOneInc(coll, pid, "bottles_taken", 0 - n, FALSE)

\* lines 480-485
UdBottle(p) ==
    /\ pc[p] = "ud_bottle"
    /\ bottles' = UndoBottles(bottles, local[p].sale.product_id, local[p].sale.quantity)
    /\ Goto(p, "ud_delsale", local[p])
    /\ UNCHANGED <<products, sales, undo_log, bottle_returns, next_id, customer_of, now>>

\* line 488: sales_collection.delete_one({"_id": sale_id})
UdDeleteSale(p) ==
    /\ pc[p] = "ud_delsale"
    /\ sales' = {s \in sales : s.id # local[p].sale_id}
    /\ customer_of' = [id \in DOMAIN customer_of \ {local[p].sale_id} |-> customer_of[id]]
    /\ Goto(p, "ud_delundo", local[p])
    /\ UNCHANGED <<products, bottles, undo_log, bottle_returns, next_id, now>>

\* line 489: undo_log_collection.delete_one({"_id": recent_undo["_id"]})
UdDeleteUndo(p) ==
    /\ pc[p] = "ud_delundo"
    /\ undo_log' = undo_log \ {local[p].recent_undo}
    /\ Finish(p, "ok")
    /\ UNCHANGED <<products, bottles, sales, bottle_returns, next_id, customer_of, now>>

\* ------------------------------------------------------------ return_bottles
ReturnRequests(Names, Q, Who) ==
    [op : {"return"}, product_name : Names, bottles_returned : Q, customer_name : Who]

ReturnBottlesCall(p, R, track, limit) == \E r \in R : Call(p, r, "rb_find", track, limit)

\* line 496: products_collection.find_one({"name": ...}); any one of that name
FindByName(name) == {id \in DOMAIN products : products[id].name = name}

\* lines 496-500: resolve the product by name, refuse a product without bottles
RbFindProduct(p) ==
    /\ pc[p] = "rb_find"
    /\ IF FindByName(req[p].product_name) = {}
       THEN Finish(p, "NotFound")
       ELSE \E id \in FindByName(req[p].product_name) :
                IF ~products[id].is_bottled
                THEN Finish(p, "InvalidProduct")
                ELSE Goto(p, "rb_inc", [local[p] EXCEPT !.product = products[id],
                                                        !.product_id = id])
    /\ UNCHANGED <<store, now>>

\* the update of the returned counter without upsert
BottlesReturnedNoUpsert(coll, pid, n) == UpdateOneInc(coll, pid, "bottles_returned", n, FALSE)

\* lines 501-505: {"$inc": {"bottles_returned": n}}, upsert=True
BottlesReturned(coll, pid, n) == UpdateOneInc(coll, pid, "bottles_returned", n, TRUE)

RbIncReturned(p) ==
    /\ pc[p] = "rb_inc"
    /\ bottles' = BottlesReturned(bottles, local[p].product_id, req[p].bottles_returned)
    /\ Goto(p, "rb_log", local[p])
    /\ UNCHANGED <<products, sales, undo_log, bottle_returns, next_id, customer_of, now>>

\* lines 506-512: the Bottle Return Record
ReturnRecord(r, pid, ts) ==
    [product_id |-> pid,
     product_name |-> r.product_name,
     bottles_returned |-> r.bottles_returned,
     customer_name |-> r.customer_name,
     timestamp |-> ts]

\* lines 506-513: append the record and answer
RbLogReturn(p) ==
    /\ pc[p] = "rb_log"
    /\ bottle_returns' = Append(bottle_returns, ReturnRecord(req[p], local[p].product_id, now))
    /\ now' = now + 1
    /\ Finish(p, "ok")
    /\ UNCHANGED <<products, bottles, sales, undo_log, next_id, customer_of>>

\* ------------------------------------------------------------ update_product
\* update_data: the fields of ProductUpdate that are not None (line 251)
UpdateRequests(Ids, Updates) == [op : {"update"}, product_id : Ids, update_data : Updates]

UpdateProductCall(p, R, track, limit) == \E r \in R : Call(p, r, "up_set", track, limit)

\* {"$set": update_data} applied to one document
SetFields(doc, upd) ==
    [f \in DOMAIN doc \cup DOMAIN upd |-> IF f \in DOMAIN upd THEN upd[f] ELSE doc[f]]

\* lines 251-261: refuse an empty update, else $set the fields of the product
UpSetFields(p) ==
    /\ pc[p] = "up_set"
    /\ IF DOMAIN req[p].update_data = {}
       THEN Finish(p, "NoData") /\ UNCHANGED products
       ELSE IF req[p].product_id \notin DOMAIN products
            THEN Finish(p, "NotFound") /\ UNCHANGED products
            ELSE /\ products' = [products EXCEPT ![req[p].product_id] =
                                                     SetFields(@, req[p].update_data)]
                 /\ Goto(p, "up_find", local[p])
    /\ UNCHANGED <<bottles, sales, undo_log, bottle_returns, next_id, customer_of, now>>

\* lines 263-264: read the product back for the response
UpFindProduct(p) ==
    /\ pc[p] = "up_find"
    /\ Finish(p, "ok")
    /\ UNCHANGED <<store, now>>

\* ------------------------------------------------------------ the clock
\* Between two requests any time may pass; inside a request every store
\* operation is short (each datetime.now() is one instant later than the last).
Quiet == \A p \in Procs : Idle(p)

Tick ==
    /\ Quiet
    /\ \E d \in TickSteps : now + d <= MaxClock /\ now' = now + d
    /\ UNCHANGED <<store, pc, req, local, result, pre, prev, started>>

\* a day of the calendar, in minutes and in instants
MinutesPerDay == 1440
DayLength == MinutesPerDay * Resolution

\* .date() of an instant (lines 541 and 545)
DateOf(t) == t \div DayLength

\* The night passes between two requests: the clock reaches the last instant of
\* the day or the first one of the next day.
Midnight ==
    /\ Quiet
    /\ DateOf(now) < MaxDay
    /\ \E t \in {(DateOf(now) + 1) * DayLength - 1, (DateOf(now) + 1) * DayLength} : now' = t
    /\ UNCHANGED <<store, pc, req, local, result, pre, prev, started>>

\* More than the undo window passes without a request.
LongPause ==
    /\ Quiet
    /\ now <= MaxClock
    /\ now' = now + Window + 1
    /\ UNCHANGED <<store, pc, req, local, result, pre, prev, started>>

\* ------------------------------------------------------------ specification
\* the shop: "Water 50cl" is bottled (add_product opens its bottle account),
\* "Bread" is not
Catalog(ids) ==
    [id \in ids |->
       IF id = "p1"
       THEN [name |-> "Water 50cl", unit_price |-> 3, quantity |-> MaxQty, is_bottled |-> TRUE]
       ELSE [name |-> "Bread", unit_price |-> 5, quantity |-> MaxQty, is_bottled |-> FALSE]]

InitWith(ids) ==
    /\ products = Catalog(ids)
    /\ bottles = [id \in {i \in ids : Catalog(ids)[i].is_bottled} |->
                    [bottles_taken |-> 0, bottles_returned |-> 0]]
    /\ sales = {}
    /\ undo_log = {}
    /\ bottle_returns = <<>>
    /\ next_id = 1
    /\ now = 0
    /\ pc = [p \in Procs |-> "idle"]
    /\ req = [p \in Procs |-> [op |-> "none"]]
    /\ local = [p \in Procs |-> EmptyLocal]
    /\ result = [p \in Procs |-> "none"]
    /\ started = 0
    /\ customer_of = <<>>
    /\ pre = [call_no |-> 0]
    /\ prev = [call_no |-> 0]

\* one store operation of a record_sale request
SaleStep(p) ==
    \/ RsFindProduct(p)
    \/ RsInsertSale(p)
    \/ RsDecQuantity(p)
    \/ RsBottle(p)
    \/ RsUndoLog(p)
    \/ RsSweep(p)

\* one store operation of a record_multi_sale request
MultiSaleStep(p) ==
    \/ MsFindProduct(p)
    \/ MsDecQuantity(p)
    \/ MsBottle(p)
    \/ MsInsertSale(p)

\* one store operation of an undo_last_sale request
UndoStep(p) ==
    \/ UdFindRecent(p)
    \/ UdFindSale(p)
    \/ UdIncQuantity(p)
    \/ UdBottle(p)
    \/ UdDeleteSale(p)
    \/ UdDeleteUndo(p)

\* one store operation of a return_bottles request
ReturnStep(p) ==
    \/ RbFindProduct(p)
    \/ RbIncReturned(p)
    \/ RbLogReturn(p)

\* one store operation of an update_product request
UpdateStep(p) ==
    \/ UpSetFields(p)
    \/ UpFindProduct(p)

\* ---- Spec: the sessions' requests interleave at every store operation
ConcIds == {"p1", MissingId}
ConcSales == SaleRequests(ConcIds, PosQuantities, BOOLEAN, {"Cash"}, {NoCustomer})
ConcMultiSales == MultiSaleRequests(ItemLists(ConcIds, PosQuantities, {TRUE}), {"Cash"}, {NoCustomer})

Init == InitWith({"p1"})

Next ==
    \/ \E p \in Procs : RecordSaleCall(p, ConcSales, FALSE, MaxCalls)
    \/ \E p \in Procs : RecordMultiSaleCall(p, ConcMultiSales, FALSE, MaxCalls)
    \/ \E p \in Procs : UndoCall(p, FALSE, MaxCalls)
    \/ \E p \in Procs : SaleStep(p)
    \/ \E p \in Procs : MultiSaleStep(p)
    \/ \E p \in Procs : UndoStep(p)
    \/ Tick

Spec == Init /\ [][Next]_vars

\* ---- SpecSeq: a request arrives only when no other is in flight
SeqIds == ProductIds \cup {MissingId}
SeqSales ==
    {r \in SaleRequests(SeqIds, PosQuantities, BOOLEAN, {"Cash"}, {NoCustomer}) :
        r.product_id = "p1" \/ r.bottle_taken}
SeqMultiSales == MultiSaleRequests(ItemLists(SeqIds, {1}, {TRUE}), {"Cash"}, {NoCustomer})

SeqProcs == {"A"}

InitSeq == InitWith(ProductIds)

NextSeq ==
    \/ \E p \in SeqProcs : Quiet /\ RecordSaleCall(p, SeqSales, TRUE, MaxSeqCalls)
    \/ \E p \in SeqProcs : Quiet /\ RecordMultiSaleCall(p, SeqMultiSales, TRUE, MaxSeqCalls)
    \/ \E p \in SeqProcs : Quiet /\ UndoCall(p, TRUE, MaxSeqCalls)
    \/ \E p \in SeqProcs : SaleStep(p)
    \/ \E p \in SeqProcs : MultiSaleStep(p)
    \/ \E p \in SeqProcs : UndoStep(p)
    \/ Tick

SpecSeq == InitSeq /\ [][NextSeq]_vars

\* ---- SpecAny: sales carrying any integer quantity, one request at a time
\* lines 71 and 90: quantity: int, with no constraint on its sign
AnyQuantities == (0 - MaxNeg)..MaxQty
AnySales == SaleRequests(ConcIds, AnyQuantities, BOOLEAN, {"Cash"}, {NoCustomer})
AnyMultiSales == MultiSaleRequests(ItemLists(ConcIds, AnyQuantities, {TRUE}), {"Cash"}, {NoCustomer})

NextAny ==
    \/ \E p \in SeqProcs : Quiet /\ RecordSaleCall(p, AnySales, TRUE, MaxCalls)
    \/ \E p \in SeqProcs : Quiet /\ RecordMultiSaleCall(p, AnyMultiSales, TRUE, MaxCalls)
    \/ \E p \in SeqProcs : SaleStep(p)
    \/ \E p \in SeqProcs : MultiSaleStep(p)

SpecAny == Init /\ [][NextAny]_vars

\* ---- SpecCredit: sales on credit, one request at a time
Customers == {"c1", "c2"}
CreditSales == SaleRequests({"p1"}, PosQuantities, {TRUE}, {"Cash", "Credit"}, Customers)
CreditMultiSales ==
    MultiSaleRequests(ItemLists({"p1"}, {1}, {TRUE}), {"Cash", "Credit"}, Customers)

NextCredit ==
    \/ \E p \in SeqProcs : Quiet /\ RecordSaleCall(p, CreditSales, TRUE, MaxCalls)
    \/ \E p \in SeqProcs : Quiet /\ RecordMultiSaleCall(p, CreditMultiSales, TRUE, MaxCalls)
    \/ \E p \in SeqProcs : SaleStep(p)
    \/ \E p \in SeqProcs : MultiSaleStep(p)
    \/ Tick

SpecCredit == Init /\ [][NextCredit]_vars

\* ---- SpecShop: sales, undo, bottle returns and catalog updates, one at a time
ProductNames == {"Water 50cl", "Bread", "Fanta"}     \* no product is named "Fanta"
ProductUpdates ==
    {[f \in {} |-> 0], [unit_price |-> 4], [is_bottled |-> TRUE],
     [quantity |-> LowStockThreshold]}
ShopSales == SaleRequests(ProductIds, PosQuantities, {TRUE}, {"Cash"}, {NoCustomer})
ShopMultiSales == MultiSaleRequests(ItemLists({"p1"}, {1}, {TRUE}), {"Cash"}, {NoCustomer})
ShopReturns == ReturnRequests(ProductNames, PosQuantities, {"Jane"})
ShopUpdates == UpdateRequests(SeqIds, ProductUpdates)

NextShop ==
    \/ \E p \in SeqProcs : Quiet /\ RecordSaleCall(p, ShopSales, TRUE, MaxCalls)
    \/ \E p \in SeqProcs : Quiet /\ RecordMultiSaleCall(p, ShopMultiSales, TRUE, MaxCalls)
    \/ \E p \in SeqProcs : Quiet /\ UndoCall(p, TRUE, MaxCalls)
    \/ \E p \in SeqProcs : Quiet /\ ReturnBottlesCall(p, ShopReturns, TRUE, MaxCalls)
    \/ \E p \in SeqProcs : Quiet /\ UpdateProductCall(p, ShopUpdates, TRUE, MaxCalls)
    \/ \E p \in SeqProcs : SaleStep(p)
    \/ \E p \in SeqProcs : MultiSaleStep(p)
    \/ \E p \in SeqProcs : UndoStep(p)
    \/ \E p \in SeqProcs : ReturnStep(p)
    \/ \E p \in SeqProcs : UpdateStep(p)
    \/ Tick

SpecShop == InitSeq /\ [][NextShop]_vars

\* ---- SpecSummary: the sales of two sellers over several days, one at a time
SummarySales == SaleRequests(ProductIds, PosQuantities, {TRUE}, {"Cash"}, {NoCustomer})
SummaryMultiSales ==
    MultiSaleRequests(ItemLists(ProductIds, {1}, {TRUE}), {"Cash"}, {NoCustomer})
Days == 0..MaxDay                   \* the target dates of get_daily_summary

NextSummary ==
    \/ \E p \in Procs : Quiet /\ RecordSaleCall(p, SummarySales, TRUE, MaxCalls)
    \/ \E p \in Procs : Quiet /\ RecordMultiSaleCall(p, SummaryMultiSales, TRUE, MaxCalls)
    \/ \E p \in Procs : Quiet /\ UndoCall(p, TRUE, MaxCalls)
    \/ \E p \in Procs : SaleStep(p)
    \/ \E p \in Procs : MultiSaleStep(p)
    \/ \E p \in Procs : UndoStep(p)
    \/ Midnight

SpecSummary == InitSeq /\ [][NextSummary]_vars

\* ---- SpecLive: sales and undos of one session while time goes by.  The event
\* loop runs every request to its end (each await returns), and time passes;
\* whether another request ever arrives is up to the operators.
NextLive ==
    \/ \E p \in SeqProcs : Quiet /\ RecordSaleCall(p, ConcSales, FALSE, MaxCalls)
    \/ \E p \in SeqProcs : Quiet /\ UndoCall(p, FALSE, MaxCalls)
    \/ \E p \in SeqProcs : SaleStep(p)
    \/ \E p \in SeqProcs : UndoStep(p)
    \/ LongPause

SpecLive ==
    /\ Init
    /\ [][NextLive]_vars
    /\ \A p \in SeqProcs : WF_vars(SaleStep(p)) /\ WF_vars(UndoStep(p))
    /\ WF_vars(LongPause)

\* ------------------------------------------------------------ get_customer_balance
RECURSIVE SumTotals(_)
SumTotals(S) == IF S = {} THEN 0
                ELSE LET s == CHOOSE x \in S : TRUE IN s.total_amount + SumTotals(S \ {s})

\* line 676: {"$match": {"customer_id": customer_id, "payment_method": "Credit"}}
CreditMatch(s, c) ==
    "customer_id" \in DOMAIN s /\ s.customer_id = c /\ s.payment_method = "Credit"

\* lines 675-681: the $group sum of the matching sales, 0 when none matches
CustomerBalance(c) == SumTotals({s \in sales : CreditMatch(s, c)})

\* ------------------------------------------------------------ get_daily_summary
\* line 544: datetime.combine(target_date, datetime.min.time())
StartOfDay(d) == d * DayLength

\* the day's upper bound taken as the next midnight
EndOfDayNextMidnight(d) == (d + 1) * DayLength

\* line 545: datetime.combine(target_date, datetime.max.time())
EndOfDay(d) == d * DayLength + (DayLength - 1)

\* lines 552-554: find({"timestamp": {"$gte": start_of_day, "$lte": end_of_day}})
DailySales(d) ==
    {s \in sales : s.timestamp >= StartOfDay(d) /\ s.timestamp <= EndOfDay(d)}

\* lines 550, 556: total_sales_amount += sale["total_amount"]
TotalSalesAmount(d) == SumTotals(DailySales(d))

\* lines 551, 558-561: sales_by_seller[seller] += sale["total_amount"]
SalesBySeller(d) ==
    [seller \in {s.sold_by : s \in DailySales(d)} |->
        SumTotals({s \in DailySales(d) : s.sold_by = seller})]

\* ------------------------------------------------------------ get_bottle_status
\* line 520: products_collection.find({"is_bottled": True})
BottledProducts == {id \in DOMAIN products : products[id].is_bottled}

\* lines 521-524: bottle_data["bottles_taken"] and bottle_data["bottles_returned"]
\* of an account that lacks one of the two fields raise KeyError
BottleStatusFails ==
    \E id \in BottledProducts :
        /\ id \in DOMAIN bottles
        /\ {"bottles_taken", "bottles_returned"} \ DOMAIN bottles[id] # {}

\* lines 518-534: the report, one row per bottled product (when nothing raises)
BottleStatus ==
    [id \in BottledProducts |->
        LET taken == IF id \in DOMAIN bottles THEN bottles[id].bottles_taken ELSE 0
            returned == IF id \in DOMAIN bottles THEN bottles[id].bottles_returned ELSE 0
        IN  [product_name |-> products[id].name,
             bottles_taken |-> taken,
             bottles_returned |-> returned,
             outstanding_bottles |-> taken - returned]]

\* lines 567-573: the loop over bottles_collection.find(), one total per counter
RECURSIVE SumField(_, _, _)
SumField(coll, ids, f) ==
    IF ids = {} THEN 0
    ELSE LET id == CHOOSE x \in ids : TRUE
         IN  FieldOf(coll[id], f) + SumField(coll, ids \ {id}, f)

TotalBottlesTaken == SumField(bottles, DOMAIN bottles, "bottles_taken")
TotalBottlesReturned == SumField(bottles, DOMAIN bottles, "bottles_returned")

\* the filter with "$lte"
BelowThresholdOrEqual(quantity, threshold) == quantity <= threshold

\* line 580: {"quantity": {"$lt": threshold}}
BelowThreshold(quantity, threshold) == quantity < threshold

\* lines 575-581: the products under the threshold, as product_dict_to_response
\* (lines 143-152) renders them
LowStockProducts ==
    {[id |-> id,
      name |-> products[id].name,
      unit_price |-> products[id].unit_price,
      quantity |-> products[id].quantity,
      is_bottled |-> products[id].is_bottled,
      low_stock |-> products[id].quantity < 5] :
        id \in {i \in DOMAIN products :
                    BelowThreshold(products[i].quantity, LowStockThreshold)}}

\* lines 583-591: the response for target date d
DailySummary(d) ==
    [date |-> d,
     total_sales_amount |-> TotalSalesAmount(d),
     sales_by_seller |-> SalesBySeller(d),
     bottles_taken |-> TotalBottlesTaken,
     bottles_returned |-> TotalBottlesReturned,
     outstanding_bottles |-> TotalBottlesTaken - TotalBottlesReturned,
     low_stock_products |-> LowStockProducts]

\* ------------------------------------------------------------ properties
\* the latest request, when it has run to its end
Ended(op) == pre.call_no > 0 /\ pre.req.op = op /\ pc[pre.proc] = "done"
Outcome == result[pre.proc]
EndedSaleId == local[pre.proc].sale_id

\* bottles-taken counter of a product in a bottles collection (0 without account)
TakenIn(coll, pid) == IF pid \in DOMAIN coll THEN FieldOf(coll[pid], "bottles_taken") ELSE 0

\* C1: under any interleaving of recordSale and recordMultiSale requests no
\* product's quantity on hand is ever negative.
C1_StockNeverNegative == \A id \in DOMAIN products : products[id].quantity >= 0

\* C2: recordSale of n > 0 units of a product with q on hand, run alone, succeeds
\* exactly when n <= q; then the quantity is q - n, exactly one sale record, with
\* total = unit price * n, is appended and exactly one undo entry for it is added;
\* when n > q it fails with InsufficientStock.
C2_SaleAlone ==
    (Ended("sale") /\ pre.req.product_id \in DOMAIN pre.products) =>
        LET r == pre.req
            before == pre.products[r.product_id]
            added == sales \ pre.sales
        IN  /\ (Outcome = "ok") <=> (r.quantity <= before.quantity)
            /\ (r.quantity > before.quantity) => Outcome = "InsufficientStock"
            /\ Outcome = "ok" =>
                 /\ products[r.product_id].quantity = before.quantity - r.quantity
                 /\ pre.sales \subseteq sales
                 /\ Cardinality(added) = 1
                 /\ \A s \in added : /\ s.id = EndedSaleId
                                     /\ s.product_id = r.product_id
                                     /\ s.quantity = r.quantity
                                     /\ s.total_amount = before.unit_price * r.quantity
                 /\ Cardinality(undo_log \ pre.undo_log) = 1
                 /\ \A e \in undo_log \ pre.undo_log : e.sale_id = EndedSaleId

\* a sale of the whole stock of a product has succeeded
C2_Witness ==
    /\ Ended("sale") /\ Outcome = "ok"
    /\ pre.req.quantity = pre.products[pre.req.product_id].quantity
    /\ products[pre.req.product_id].quantity = 0

\* the session has applied the compensating stock increment of an undo
Reversed(p) ==
    /\ req[p].op = "undo"
    /\ \/ pc[p] \in {"ud_bottle", "ud_delsale", "ud_delundo"}
       \/ pc[p] = "done" /\ result[p] = "ok"

\* C3: two concurrent undoLastSale calls never both reverse the same sale.
C3_UndoAtMostOnce ==
    \A p, q \in Procs :
        (p # q /\ Reversed(p) /\ Reversed(q)) => local[p].sale_id # local[q].sale_id

\* the sale request before the latest request succeeded and its undo entry was
\* inside the window when the latest request arrived
SaleJustBefore ==
    /\ prev.call_no > 0
    /\ prev.pre.req.op = "sale"
    /\ prev.result = "ok"
    /\ \E e \in pre.undo_log : e.sale_id = prev.sale_id /\ pre.now - e.timestamp <= Window

\* C4: a successful recordSale immediately followed, inside the window, by
\* undoLastSale: the undo succeeds, the product's quantity and bottles-taken
\* counter are back at their pre-sale values, the sale has left the ledger and
\* its undo entry is gone.
C4_UndoInvertsSale ==
    (Ended("undo") /\ SaleJustBefore) =>
        LET pid == prev.pre.req.product_id IN
        /\ Outcome = "ok"
        /\ EndedSaleId = prev.sale_id
        /\ products[pid].quantity = prev.pre.products[pid].quantity
        /\ TakenIn(bottles, pid) = TakenIn(prev.pre.bottles, pid)
        /\ \A s \in sales : s.id # prev.sale_id
        /\ sales = prev.pre.sales
        /\ \A e \in undo_log : e.sale_id # prev.sale_id

\* a sale that took bottles has been undone
C4_Witness ==
    /\ Ended("undo") /\ SaleJustBefore /\ Outcome = "ok"
    /\ prev.pre.req.product_id = "p1" /\ prev.pre.req.bottle_taken
    /\ prev.pre.req.quantity = 2
    /\ prev.pre.sales # {}

\* C5: a recordMultiSale that fails on a line leaves every product quantity and
\* bottle counter as before the call and appends nothing to the ledger.
C5_FailedMultiSaleChangesNothing ==
    (Ended("multi") /\ Outcome \in {"NotFound", "InsufficientStock"}) =>
        /\ products = pre.products
        /\ bottles = pre.bottles
        /\ sales = pre.sales

\* C6: of two undoLastSale calls in a row the second fails with NoEligibleUndo
\* and changes nothing.
C6_SecondUndoFails ==
    (Ended("undo") /\ prev.call_no > 0 /\ prev.pre.req.op = "undo") =>
        /\ Outcome = "NoEligibleUndo"
        /\ products = pre.products
        /\ bottles = pre.bottles
        /\ sales = pre.sales
        /\ undo_log = pre.undo_log

\* the undo entries that were inside the window when the latest request arrived
InWindow == {e \in pre.undo_log : pre.now - e.timestamp <= Window}

\* C7: undoLastSale succeeds only if some undo entry has now - created <= 5
\* minutes; when every entry is older it fails with NoEligibleUndo and leaves the
\* ledger, the quantities and the bottle counters unchanged.
C7_UndoOnlyInsideWindow ==
    Ended("undo") =>
        /\ Outcome = "ok" => InWindow # {}
        /\ InWindow = {} =>
             /\ Outcome = "NoEligibleUndo"
             /\ sales = pre.sales
             /\ products = pre.products
             /\ bottles = pre.bottles

\* an undo has failed although a sale and its (expired) undo entry exist
C7_Witness ==
    /\ Ended("undo") /\ Outcome = "NoEligibleUndo"
    /\ InWindow = {}
    /\ \E e \in pre.undo_log : \E s \in sales : s.id = e.sale_id

\* C8: a successful recordMultiSale has registered exactly one undo entry for
\* its sale.
C8_MultiSaleHasUndoEntry ==
    (Ended("multi") /\ Outcome = "ok") =>
        Cardinality({e \in undo_log : e.sale_id = EndedSaleId}) = 1

\* C9: the sale a successful undoLastSale removes is the one with the latest
\* commit time among the sales of the ledger.
C9_UndoRemovesLatestSale ==
    (Ended("undo") /\ Outcome = "ok") =>
        \A s \in pre.sales : \A t \in pre.sales :
            s.id = EndedSaleId => t.timestamp <= s.timestamp

\* C10: customerBalance(c) is the sum of the totals of the committed sales that
\* were recorded with customer id c and payment method Credit.
C10_BalanceIsCreditTotal ==
    Quiet =>
        \A c \in Customers :
            CustomerBalance(c) =
                SumTotals({s \in sales : customer_of[s.id] = c /\ s.payment_method = "Credit"})

\* ------------------------------------------------------------ reads
\* get_sales, get_daily_summary, get_bottle_status and get_customer_balance
\* only read; the event loop may run their find at any await of another
\* request, so what a read can observe is every reachable state of the store.

\* the sale of session p is in the ledger (a listing returns it) while its stock
\* decrement (line 319) or its bottle increment (line 326) is still to come
SaleAheadOfStock(p) ==
    /\ pc[p] \in {"rs_dec", "rs_bottle"}
    /\ FindSale(local[p].sale_id) # {}

\* the multi-sale of session p has decremented stock (line 369) and its sale
\* document is not inserted yet (line 388)
StockAheadOfSale(p) ==
    /\ pc[p] \in {"ms_find", "ms_bottle", "ms_insert"}
    /\ local[p].i > 0 \/ pc[p] = "ms_bottle"

\* the undo of session p has given the stock back (line 475) and the sale is
\* still in the ledger (line 488 is to come)
UndoAheadOfLedger(p) ==
    /\ pc[p] \in {"ud_bottle", "ud_delsale"}
    /\ FindSale(local[p].sale_id) # {}

\* C11: no read running concurrently with recordSale, recordMultiSale or
\* undoLastSale observes a partially applied transaction: never a sale in the
\* ledger whose stock decrement or bottle increment is not yet applied, nor a
\* stock or bottle mutation whose sale record is not in the ledger.
C11_ReadsSeeWholeTransactions ==
    \A p \in Procs :
        /\ ~SaleAheadOfStock(p)
        /\ ~StockAheadOfSale(p)
        /\ ~UndoAheadOfLedger(p)

\* lines 426-443: the lines of a sale document as get_sales lists them
SaleLines(s) == IF "items" \in DOMAIN s THEN s.items ELSE <<s>>

\* the sale documents the latest request added to the ledger
AddedSales == sales \ pre.sales

\* C12: a committed sale record is immutable: every line of every sale in the
\* ledger has line total = unit price * quantity with the unit price the catalog
\* held at commit time; a later price change, sale, return or undo of another
\* sale leaves every existing record unchanged; and a sale leaves the ledger only
\* through a successful undoLastSale issued within 5 minutes of its creation.
C12_SaleRecordsImmutable ==
    /\ \A s \in sales : \A i \in DOMAIN SaleLines(s) :
           SaleLines(s)[i].total_amount = SaleLines(s)[i].unit_price * SaleLines(s)[i].quantity
    /\ pre.call_no > 0 =>
          /\ \A s \in AddedSales : \A i \in DOMAIN SaleLines(s) :
                 SaleLines(s)[i].unit_price =
                     pre.products[SaleLines(s)[i].product_id].unit_price
          /\ \A s \in pre.sales \ sales :
                 /\ pre.req.op = "undo"
                 /\ pc[pre.proc] = "done" => Outcome = "ok"
                 /\ s.id = EndedSaleId
                 /\ pre.now - s.timestamp <= Window

\* the sum of the line totals of a sale's lines
RECURSIVE SumLineTotals(_)
SumLineTotals(lines) ==
    IF lines = <<>> THEN 0 ELSE Head(lines).total_amount + SumLineTotals(Tail(lines))

\* the sum of the line totals of all lines of a set of sales
RECURSIVE LedgerTotal(_)
LedgerTotal(S) ==
    IF S = {} THEN 0
    ELSE LET s == CHOOSE x \in S : TRUE IN SumLineTotals(SaleLines(s)) + LedgerTotal(S \ {s})

\* the sum of the values of a seller -> amount map
RECURSIVE SumValues(_)
SumValues(f) ==
    IF DOMAIN f = {} THEN 0
    ELSE LET k == CHOOSE x \in DOMAIN f : TRUE
         IN  f[k] + SumValues([x \in DOMAIN f \ {k} |-> f[x]])

\* the sales of the ledger that are dated on day d
DatedOn(d) == {s \in sales : DateOf(s.timestamp) = d}

\* C13: for every target date dailySummary's totalAmount is the sum of the totals
\* of the ledger's sales dated on that day and bySeller maps each seller to the
\* sum of that seller's sales of the day (the values sum to totalAmount); a
\* multi-item sale counts with the sum of its line totals; sales removed by undo
\* or dated on another day count for nothing.
C13_DailySummaryTotals ==
    \A d \in Days :
        /\ TotalSalesAmount(d) = LedgerTotal(DatedOn(d))
        /\ DOMAIN SalesBySeller(d) = {s.sold_by : s \in DatedOn(d)}
        /\ \A seller \in DOMAIN SalesBySeller(d) :
               SalesBySeller(d)[seller] = LedgerTotal({s \in DatedOn(d) : s.sold_by = seller})
        /\ SumValues(SalesBySeller(d)) = TotalSalesAmount(d)
        /\ (Ended("undo") /\ Outcome = "ok") =>
               TotalSalesAmount(d) =
                   LedgerTotal({s \in pre.sales : DateOf(s.timestamp) = d /\ s.id # EndedSaleId})

\* two sellers have sold on one day, one of them two lines in one sale, and the
\* ledger holds a sale of another day
C13_Witness ==
    \E d \in Days :
        /\ Cardinality(DOMAIN SalesBySeller(d)) = 2
        /\ \E s \in DailySales(d) : "items" \in DOMAIN s /\ Len(s.items) = 2
        /\ \E s \in sales : DateOf(s.timestamp) # d
        /\ TotalSalesAmount(d) > 0

\* bottles-returned counter of a product in a bottles collection (0 without account)
ReturnedIn(coll, pid) ==
    IF pid \in DOMAIN coll THEN FieldOf(coll[pid], "bottles_returned") ELSE 0

\* the products that had the name of the latest (return) request when it arrived
NamedBefore == {id \in DOMAIN pre.products : pre.products[id].name = pre.req.product_name}

\* C14: returnBottles(name, n, customer) fails with NotFound when no product has
\* that name and with InvalidProduct when the product is not bottled, leaving the
\* bottle accounts and the return log unchanged; on success the product's
\* bottles-returned counter has grown by exactly n (the account is created when
\* missing), exactly one Bottle Return Record is appended, and the bottles-taken
\* counter, the quantities, the ledger and the undo log are unchanged.
C14_ReturnBottlesFrame ==
    Ended("return") =>
        LET r == pre.req IN
        /\ NamedBefore = {} => Outcome = "NotFound"
        /\ (NamedBefore # {} /\ \A id \in NamedBefore : ~pre.products[id].is_bottled) =>
               Outcome = "InvalidProduct"
        /\ (\E id \in NamedBefore : pre.products[id].is_bottled) => Outcome = "ok"
        /\ Outcome \in {"NotFound", "InvalidProduct"} =>
               /\ bottles = pre.bottles
               /\ bottle_returns = pre.bottle_returns
        /\ Outcome = "ok" =>
               \E id \in NamedBefore :
                   /\ id \in DOMAIN bottles
                   /\ ReturnedIn(bottles, id) = ReturnedIn(pre.bottles, id) + r.bottles_returned
                   /\ TakenIn(bottles, id) = TakenIn(pre.bottles, id)
                   /\ DOMAIN bottles = DOMAIN pre.bottles \cup {id}
                   /\ \A k \in DOMAIN pre.bottles \ {id} : bottles[k] = pre.bottles[k]
                   /\ Len(bottle_returns) = Len(pre.bottle_returns) + 1
                   /\ SubSeq(bottle_returns, 1, Len(pre.bottle_returns)) = pre.bottle_returns
                   /\ LET rec == bottle_returns[Len(bottle_returns)] IN
                          /\ rec.product_id = id
                          /\ rec.product_name = r.product_name
                          /\ rec.bottles_returned = r.bottles_returned
                          /\ rec.customer_name = r.customer_name
                   /\ products = pre.products
                   /\ sales = pre.sales
                   /\ undo_log = pre.undo_log

\* a return has succeeded on a bottled product that had no bottle account
C14_Witness ==
    /\ Ended("return") /\ Outcome = "ok"
    /\ \E id \in NamedBefore : id \notin DOMAIN pre.bottles /\ id \in DOMAIN bottles
    /\ Len(bottle_returns) = 1

\* C15: a recordSale that fails validation (product not found, or requested
\* quantity greater than the quantity on hand) applies no mutation: the ledger,
\* the undo log, every product quantity and every bottle counter are the same
\* after the failed call as before it.
C15_FailedSaleChangesNothing ==
    Ended("sale") =>
        LET r == pre.req
            invalid == \/ r.product_id \notin DOMAIN pre.products
                       \/ r.quantity > pre.products[r.product_id].quantity
        IN  /\ invalid <=> Outcome \in {"NotFound", "InsufficientStock"}
            /\ invalid =>
                  /\ sales = pre.sales
                  /\ undo_log = pre.undo_log
                  /\ products = pre.products
                  /\ bottles = pre.bottles
                  /\ bottle_returns = pre.bottle_returns

\* a sale has been refused for lack of stock in a shop that has sold before
C15_Witness ==
    /\ Ended("sale") /\ Outcome = "InsufficientStock"
    /\ pre.sales # {} /\ pre.undo_log # {}
    /\ pre.products[pre.req.product_id].quantity > 0

\* C16: bottleStatus reports for every bottled product outstanding = taken -
\* returned of its bottle account (0, 0, 0 when it has no account), and
\* returnBottles never rejects a return because of the balance: a return of n
\* bottles on a bottled product succeeds whatever its taken counter is and lowers
\* the outstanding by n, below zero when the returns exceed the takes.
C16_BottleStatusReportsOutstanding ==
    Quiet =>
        /\ ~BottleStatusFails
        /\ \A id \in BottledProducts :
               /\ BottleStatus[id].bottles_taken = TakenIn(bottles, id)
               /\ BottleStatus[id].bottles_returned = ReturnedIn(bottles, id)
               /\ BottleStatus[id].outstanding_bottles =
                      TakenIn(bottles, id) - ReturnedIn(bottles, id)
        /\ (Ended("return") /\ \E id \in NamedBefore : pre.products[id].is_bottled) =>
               /\ Outcome = "ok"
               /\ \E id \in NamedBefore :
                      BottleStatus[id].outstanding_bottles =
                          TakenIn(pre.bottles, id) - ReturnedIn(pre.bottles, id)
                              - pre.req.bottles_returned

\* C17: the sweep of expired undo entries (part of recordSale) never removes an
\* entry younger than the window, whatever sales and undos run concurrently:
\* every entry a sweep deletes has now - created > 5 minutes at that moment, and
\* an entry of age <= 5 minutes stays in the log, eligible for undoLastSale.
C17_SweepKeepsYoungEntries ==
    [][\A p \in Procs :
          (pc[p] = "rs_sweep" /\ pc'[p] # "rs_sweep") =>
              /\ \A e \in undo_log \ undo_log' : now - e.timestamp > Window
              /\ \A e \in undo_log :
                     now - e.timestamp <= Window => e \in Eligible(undo_log', now)]_vars

\* a sweep has discarded the expired entry of a sale that is still in the ledger
\* and has kept a younger entry
C17_Witness ==
    /\ Quiet
    /\ \E s \in sales :
           /\ "product_id" \in DOMAIN s
           /\ now - s.timestamp > Window
           /\ \A e \in undo_log : e.sale_id # s.id
    /\ \E e \in undo_log : now - e.timestamp <= Window

\* the ids the store hands out to the sales of one behaviour
SaleIds == 1..MaxCalls

\* the sale has an entry in the undo log
HasUndoEntry(id) == \E e \in undo_log : e.sale_id = id

\* the sale's entry is older than the window: no undoLastSale can consume it
HasExpiredEntry(id) == \E e \in undo_log : e.sale_id = id /\ now - e.timestamp > Window

\* C18: every undo entry is eventually removed from the undo log, consumed by a
\* successful undoLastSale or, once older than 5 minutes, discarded by the
\* periodic sweep, also when no further sale is ever recorded.  (An entry that
\* is not consumed gets older than the window as time passes; from then on the
\* sweep is what has to remove it.)
C18_UndoEntriesEventuallyRemoved ==
    \A id \in SaleIds : HasExpiredEntry(id) ~> ~HasUndoEntry(id)

\* C19: in every state reachable by any interleaving of recordSale,
\* recordMultiSale, undoLastSale and returnBottles with positive quantities both
\* counters of every bottle account are non-negative.
C19_BottleCountersNonNegative ==
    \A id \in DOMAIN bottles :
        /\ TakenIn(bottles, id) >= 0
        /\ ReturnedIn(bottles, id) >= 0

\* the bottles the lines of a request take of product id, as the claim counts
\* them: the quantities of the lines on id with the flag set, if id is bottled
RECURSIVE BottlesOfLines(_, _, _)
BottlesOfLines(items, id, catalog) ==
    IF items = <<>> THEN 0
    ELSE (IF Head(items).product_id = id /\ catalog[id].is_bottled /\ Head(items).bottle_taken
          THEN Head(items).quantity ELSE 0)
         + BottlesOfLines(Tail(items), id, catalog)

\* the lines of the latest request, a sale or a multi-sale
RequestLines == IF pre.req.op = "multi" THEN pre.req.items ELSE <<pre.req>>

\* C20: a sale line increments the product's bottles-taken counter by the sold
\* quantity if and only if the product is bottled and the request's bottle-taken
\* flag is set; for a non-bottled product with the flag set no bottle account is
\* created or changed, the committed sale records bottle-taken = false, and a
\* later undo of that sale leaves all bottle counters unchanged.
C20_BottlesTakenOnlyWhenBottled ==
    /\ ((Ended("sale") \/ Ended("multi")) /\ Outcome = "ok") =>
          /\ DOMAIN bottles =
                 DOMAIN pre.bottles \cup
                     {id \in DOMAIN pre.products :
                         BottlesOfLines(RequestLines, id, pre.products) > 0}
          /\ \A id \in DOMAIN pre.products :
                 /\ TakenIn(bottles, id) =
                        TakenIn(pre.bottles, id) + BottlesOfLines(RequestLines, id, pre.products)
                 /\ ReturnedIn(bottles, id) = ReturnedIn(pre.bottles, id)
          /\ \A s \in AddedSales : \A i \in DOMAIN SaleLines(s) :
                 SaleLines(s)[i].bottle_taken =
                     (pre.products[RequestLines[i].product_id].is_bottled
                          /\ RequestLines[i].bottle_taken)
    /\ (Ended("undo") /\ Outcome = "ok") =>
          \A s \in pre.sales :
              (s.id = EndedSaleId /\ ~pre.products[s.product_id].is_bottled) =>
                  bottles = pre.bottles

\* a sale of the non-bottled product with the bottle-taken flag set has been
\* recorded and then undone
C20_Witness ==
    /\ Ended("undo") /\ Outcome = "ok"
    /\ prev.call_no > 0 /\ prev.pre.req.op = "sale" /\ prev.result = "ok"
    /\ prev.pre.req.product_id = "p2" /\ prev.pre.req.bottle_taken
    /\ EndedSaleId = prev.sale_id
\* C21: for every target date the bottle and stock fields of dailySummary are a
\* snapshot of the current state that does not depend on the date: bottlesTaken
\* and bottlesReturned are the sums of the two counters over all bottle accounts
\* (a counter an account lacks counts as 0), outstandingBottles is their
\* difference, and lowStockProducts is exactly the set of products whose current
\* quantity is strictly below the threshold 5.
C21_SummaryIsSnapshot ==
    \A d \in Days :
        LET s == DailySummary(d)
        IN  /\ s.bottles_taken =
                   SumValues([id \in DOMAIN bottles |-> TakenIn(bottles, id)])
            /\ s.bottles_returned =
                   SumValues([id \in DOMAIN bottles |-> ReturnedIn(bottles, id)])
            /\ s.outstanding_bottles = s.bottles_taken - s.bottles_returned
            /\ {r.id : r \in s.low_stock_products} =
                   {id \in DOMAIN products : products[id].quantity < 5}
            /\ \A r \in s.low_stock_products : r.quantity = products[r.id].quantity
            /\ \A e \in Days :
                   /\ DailySummary(e).bottles_taken = s.bottles_taken
                   /\ DailySummary(e).bottles_returned = s.bottles_returned
                   /\ DailySummary(e).outstanding_bottles = s.outstanding_bottles
                   /\ DailySummary(e).low_stock_products = s.low_stock_products

\* a quiet state with bottles returned, an account that lacks the bottles-taken
\* counter, one product exactly at the threshold and one below it
C21_Witness ==
    /\ Quiet
    /\ TotalBottlesReturned > 0
    /\ \E id \in DOMAIN bottles : "bottles_taken" \notin DOMAIN bottles[id]
    /\ \E id \in DOMAIN products : products[id].quantity = 5
    /\ \E id \in DOMAIN products : products[id].quantity < 5

\* the units of product id on the lines of a sale
RECURSIVE UnitsOnLines(_, _)
UnitsOnLines(lines, id) ==
    IF lines = <<>> THEN 0
    ELSE (IF Head(lines).product_id = id THEN Head(lines).quantity ELSE 0)
         + UnitsOnLines(Tail(lines), id)

\* the units of product id on all lines of a set of sales
RECURSIVE UnitsSold(_, _)
UnitsSold(S, id) ==
    IF S = {} THEN 0
    ELSE LET s == CHOOSE x \in S : TRUE
         IN  UnitsOnLines(SaleLines(s), id) + UnitsSold(S \ {s}, id)

\* C22: stock conservation: with no catalog edits, in every state where no
\* operation is in flight, after any interleaving of recordSale, recordMultiSale
\* and undoLastSale, each product's quantity on hand plus the units of that
\* product on all lines of the sales in the ledger equals its initial quantity.
C22_StockConservation ==
    Quiet =>
        \A id \in DOMAIN products :
            products[id].quantity + UnitsSold(sales, id) =
                Catalog(DOMAIN products)[id].quantity

\* lines 465-467: the sale an undo entry of the log names is still in the ledger
EntryHasSale(e) == FindSale(e.sale_id) # {}

\* C23: undoLastSale has no failure outcome other than NoEligibleUndo: under any
\* interleaving of sales and undos no undoLastSale ends with "Sale not found",
\* and once no operation is in flight every undo entry in the log names a sale
\* that is in the ledger (none is left behind for a deleted sale).
C23_UndoNeverMissesSale ==
    /\ \A p \in Procs : req[p].op = "undo" => result[p] \in {"pending", "ok", "NoEligibleUndo"}
    /\ Quiet => \A e \in undo_log : EntryHasSale(e)

\* C24: whatever integer quantity a request carries (zero and negative included),
\* no recordSale or recordMultiSale call ever increases a product's quantity on
\* hand, decreases a bottles-taken counter, or commits a sale line with a
\* negative total.
C24_SalesNeverAddStock ==
    (pre.call_no > 0 /\ pre.req.op \in {"sale", "multi"}) =>
        /\ \A id \in DOMAIN pre.products :
               products[id].quantity <= pre.products[id].quantity
        /\ \A id \in DOMAIN bottles :
               TakenIn(bottles, id) >= TakenIn(pre.bottles, id)
        /\ \A s \in AddedSales : \A i \in DOMAIN SaleLines(s) :
               SaleLines(s)[i].total_amount >= 0

====
